---- MODULE Spec2Model ----
(***************************************************************************)
(* Model of crates/bevy_render/src/render_graph/nodes/                     *)
(* render_resources_node.rs: the per-frame uniform packer                  *)
(* (BufferArrayStatus, UniformBufferArrays) and its two drivers,           *)
(* RenderResourcesNode and AssetRenderResourcesNode.                       *)
(*                                                                         *)
(* Option<T> is modelled as a sequence: None == <<>>, Some(x) == <<x>>.    *)
(* A HashMap is modelled as a total function to Option: None == no entry.  *)
(***************************************************************************)
EXTENDS Integers, Sequences, FiniteSets, TLC

(***************************************************************************)
(* Bounds of the model.                                                    *)
(***************************************************************************)
\* number of owner identities (entities of the per-object node, asset
\* handles of the per-asset node)
MaxOwners == 2
\* number of invocations of the packing system
MaxFrames == 2

Owners == 1..MaxOwners

(***************************************************************************)
(* Program constants.                                                      *)
(***************************************************************************)
BIND_BUFFER_ALIGNMENT == 256
\* texture::TEXTURE_ASSET_INDEX and texture::SAMPLER_ASSET_INDEX, the two
\* resource slots get_asset_resource is asked for
TEXTURE_ASSET_INDEX == 0
SAMPLER_ASSET_INDEX == 1

None == <<>>
Some(x) == <<x>>
IsSome(o) == o # <<>>
Unwrap(o) == o[1]

(***************************************************************************)
(* The uniform type T: a fixed ordered list of named fields.  Each item    *)
(* (a value of T) gives for every field its ResourceInfo ("Buffer",        *)
(* "Texture", "Sampler" or "None"), for a buffer its buffer_byte_len and   *)
(* for a texture its texture() handle.                                     *)
(***************************************************************************)
FieldNames == <<"a", "b", "t", "s">>

render_resources_len == Len(FieldNames)

get_render_resource_name(i) == FieldNames[i]

Buf(n) == [resource_info |-> "Buffer", buffer_byte_len |-> n, texture |-> None]
Tex(h) == [resource_info |-> "Texture", buffer_byte_len |-> 0, texture |-> h]
Smp == [resource_info |-> "Sampler", buffer_byte_len |-> 0, texture |-> None]
Absent == [resource_info |-> "None", buffer_byte_len |-> 0, texture |-> None]

\* the values of T an item may hold in a frame (field "a" has no fixed
\* length, field "b" and field "t" may be absent)
UniformValues ==
    { <<Buf(64), Absent, Tex(Some(1)), Smp>>,
      <<Buf(300), Buf(128), Absent, Smp>> }

(***************************************************************************)
(* usize -> f32 conversion (round to nearest, ties to even, 24-bit         *)
(* significand), as used by get_aligned_dynamic_uniform_size.              *)
(***************************************************************************)
RECURSIVE F32Ulp(_)
F32Ulp(n) == IF n < 16777216 THEN 1 ELSE 2 * F32Ulp(n \div 2)

AsF32(n) ==
    LET u == F32Ulp(n)
        q == n \div u
        r == n % u
    IN  IF 2 * r < u THEN q * u
        ELSE IF 2 * r > u THEN (q + 1) * u
        ELSE IF q % 2 = 0 THEN q * u
        ELSE (q + 1) * u

\* f32 division by 256.0 is exact (a power of two); ceil() and `as usize`
\* of the quotient
CeilDiv(x, d) == (x + d - 1) \div d

get_aligned_dynamic_uniform_size(data_size) ==
    BIND_BUFFER_ALIGNMENT * CeilDiv(AsF32(data_size), BIND_BUFFER_ALIGNMENT)

(***************************************************************************)
(* State.                                                                  *)
(***************************************************************************)
VARIABLES
    node,               \* "object": RenderResourcesNode, "asset": AssetRenderResourcesNode
    dynamic_uniforms,   \* the node's dynamic_uniforms flag
    pc,                 \* position of the packing system within a frame
    panic_message,      \* the message of the panic that ended the process, if any
    frame,              \* number of invocations started
    items,              \* this invocation's query result / modified_assets, in iteration order
    uniform_arrays,     \* UniformBufferArrays::uniform_arrays
    assignments,        \* per-object: each entity's render_resource_assignments;
                        \* per-asset: asset_render_resource_assignments (the cache)
    render_pipelines,   \* per-asset node: the binding table of each referencing object
    resources,          \* RenderResourceContext: resource id -> ResourceInfo (or removed)
    asset_resources,    \* RenderResourceContext: the asset resources resolvable for texture 1
    staging_buffer_size,
    staging_buffer,     \* Option: the frame's mapped staging buffer
    command_queue,      \* CommandQueue: commands appended, not yet executed
    executed,           \* commands executed against the render context, in order
    data_size,          \* input of a direct call of get_aligned_dynamic_uniform_size
    aligned             \* Option: its result

vars == <<node, dynamic_uniforms, pc, panic_message, frame, items, uniform_arrays,
          assignments, render_pipelines, resources, asset_resources,
          staging_buffer_size, staging_buffer, command_queue, executed,
          data_size, aligned>>

(***************************************************************************)
(* RenderResourceAssignments: a binding table, name -> Option<binding>.    *)
(***************************************************************************)
sampler_name(render_resource_name) == render_resource_name \o "_sampler"

BindingNames ==
    { FieldNames[i] : i \in 1..Len(FieldNames) }
        \cup { sampler_name(FieldNames[i]) : i \in 1..Len(FieldNames) }

\* RenderResourceAssignments::default()
EmptyAssignments == [n \in BindingNames |-> None]

\* RenderResourceAssignments::set
AssignmentsSet(table, name, assignment) ==
    [table EXCEPT ![name] = Some(assignment)]

\* RenderResourceAssignment::Buffer { resource, dynamic_index, range }
BufferAssignment(resource, dynamic_index, size) ==
    [kind |-> "Buffer", resource |-> resource,
     dynamic_index |-> dynamic_index, range |-> size]

\* RenderResourceAssignment::Texture(resource)
TextureAssignment(resource) ==
    [kind |-> "Texture", resource |-> resource,
     dynamic_index |-> None, range |-> 0]

\* RenderResourceAssignment::Sampler(resource)
SamplerAssignment(resource) ==
    [kind |-> "Sampler", resource |-> resource,
     dynamic_index |-> None, range |-> 0]

(***************************************************************************)
(* RenderResourceContext: resources[id] is Some(ResourceInfo) for a live   *)
(* resource and None for a removed one; a created buffer gets the next id. *)
(***************************************************************************)
BufferInfo(size, buffer_usage) ==
    [kind |-> "Buffer", size |-> size, buffer_usage |-> buffer_usage]

\* create_buffer / create_buffer_mapped: the new resource table; the id of
\* the new buffer is its length
create_buffer(res, info) == Append(res, Some(info))

remove_buffer(res, id) == [res EXCEPT ![id] = None]

get_resource_info(res, id) ==
    IF id \in 1..Len(res) THEN res[id] ELSE None

\* the texture and the sampler resource of texture handle 1 exist from the
\* start (ids 1 and 2); asset_resources tells which of them the lookup
\* resolves
InitialResources ==
    << Some([kind |-> "Texture", size |-> 0, buffer_usage |-> {}]),
       Some([kind |-> "Sampler", size |-> 0, buffer_usage |-> {}]) >>

get_asset_resource(known, texture_handle, index) ==
    IF index \in known THEN Some(index + 1) ELSE None

(***************************************************************************)
(* BufferArrayStatus                                                       *)
(***************************************************************************)
NoIndices == [o \in Owners |-> None]

\* the status of a new field as it would be if its first item's bytes were not
\* counted
NewBufferArrayStatus_uncounted(size) ==
    [changed_item_count |-> 1,
     queued_buffer_writes |-> <<>>,
     aligned_size |-> get_aligned_dynamic_uniform_size(size),
     item_size |-> size,
     staging_buffer_offset |-> 0,
     buffer |-> None,
     current_index |-> 0,
     current_item_count |-> 0,
     current_item_capacity |-> 0,
     indices |-> NoIndices,
     changed_size |-> 0,
     current_offset |-> 0]

\* the status created on first sight of a buffer-backed field (lines 107-123)
NewBufferArrayStatus(size) ==
    [changed_item_count |-> 1,
     queued_buffer_writes |-> <<>>,
     aligned_size |-> get_aligned_dynamic_uniform_size(size),
     item_size |-> size,
     staging_buffer_offset |-> 0,
     buffer |-> None,
     current_index |-> 0,
     current_item_count |-> 0,
     current_item_capacity |-> 0,
     indices |-> NoIndices,
     changed_size |-> size,
     current_offset |-> 0]

\* get_or_assign_index as it would be if handing out a slot did not advance
\* current_index
get_or_assign_index_not_advancing(status, id) ==
    IF IsSome(status.indices[id])
    THEN [status |-> status, index |-> Unwrap(status.indices[id]), panicked |-> FALSE]
    ELSE IF status.current_index = status.current_item_capacity
    THEN [status |-> status, index |-> 0, panicked |-> TRUE]
    ELSE [status |-> [status EXCEPT !.indices[id] = Some(status.current_index)],
          index |-> status.current_index,
          panicked |-> FALSE]

\* returns the status, the index, and whether the call panicked
get_or_assign_index(status, id) ==
    IF IsSome(status.indices[id])
    THEN [status |-> status, index |-> Unwrap(status.indices[id]), panicked |-> FALSE]
    ELSE IF status.current_index = status.current_item_capacity
    THEN [status |-> status, index |-> 0, panicked |-> TRUE]
    ELSE [status |-> [status EXCEPT !.indices[id] = Some(status.current_index),
                                    !.current_index = @ + 1],
          index |-> status.current_index,
          panicked |-> FALSE]

(***************************************************************************)
(* UniformBufferArrays                                                     *)
(***************************************************************************)
\* reset_changed_item_counts as it would be if the byte count were carried
\* over from the frame before
reset_changed_item_counts_keeping_size(arrays) ==
    [i \in 1..Len(arrays) |->
        IF IsSome(arrays[i])
        THEN Some([Unwrap(arrays[i]) EXCEPT !.changed_item_count = 0,
                                            !.current_offset = 0])
        ELSE None]

reset_changed_item_counts(arrays) ==
    [i \in 1..Len(arrays) |->
        IF IsSome(arrays[i])
        THEN Some([Unwrap(arrays[i]) EXCEPT !.changed_item_count = 0,
                                            !.current_offset = 0,
                                            !.changed_size = 0])
        ELSE None]

increment_changed_item_counts(arrays, uniforms) ==
    LET resized ==
            IF Len(arrays) # render_resources_len
            THEN [i \in 1..render_resources_len |->
                    IF i <= Len(arrays) THEN arrays[i] ELSE None]
            ELSE arrays
    IN  [i \in 1..Len(resized) |->
            IF uniforms[i].resource_info = "Buffer"
            THEN LET size == uniforms[i].buffer_byte_len
                 IN  IF IsSome(resized[i])
                     THEN Some([Unwrap(resized[i]) EXCEPT
                                    !.changed_item_count = @ + 1,
                                    !.changed_size = @ + size])
                     ELSE Some(NewBufferArrayStatus(size))
            ELSE resized[i]]

\* setup_buffer_array as it would be if growth started the slot table afresh
setup_buffer_array_resetting_slots(status, res, align) ==
    IF status.current_item_capacity < status.changed_item_count
    THEN LET new_capacity == status.changed_item_count + status.changed_item_count \div 2
             item_size == IF align
                          THEN get_aligned_dynamic_uniform_size(status.item_size)
                          ELSE status.item_size
             total_size == item_size * new_capacity
             created == create_buffer(res, BufferInfo(total_size, {"COPY_DST", "UNIFORM"}))
         IN  [status |-> [status EXCEPT !.current_item_capacity = new_capacity,
                                        !.buffer = Some(Len(created)),
                                        !.indices = NoIndices,
                                        !.current_index = 0],
              resources |-> created]
    ELSE [status |-> status, resources |-> res]

\* setup_buffer_array as it would be if it resized whenever the count differs
setup_buffer_array_fitting_count(status, res, align) ==
    IF status.current_item_capacity # status.changed_item_count
    THEN LET new_capacity == status.changed_item_count + status.changed_item_count \div 2
             item_size == IF align
                          THEN get_aligned_dynamic_uniform_size(status.item_size)
                          ELSE status.item_size
             total_size == item_size * new_capacity
             created == create_buffer(res, BufferInfo(total_size, {"COPY_DST", "UNIFORM"}))
         IN  [status |-> [status EXCEPT !.current_item_capacity = new_capacity,
                                        !.buffer = Some(Len(created))],
              resources |-> created]
    ELSE [status |-> status, resources |-> res]

\* setup_buffer_array as it would be if it grew to the count with no headroom
setup_buffer_array_without_headroom(status, res, align) ==
    IF status.current_item_capacity < status.changed_item_count
    THEN LET new_capacity == status.changed_item_count
             item_size == IF align
                          THEN get_aligned_dynamic_uniform_size(status.item_size)
                          ELSE status.item_size
             total_size == item_size * new_capacity
             created == create_buffer(res, BufferInfo(total_size, {"COPY_DST", "UNIFORM"}))
         IN  [status |-> [status EXCEPT !.current_item_capacity = new_capacity,
                                        !.buffer = Some(Len(created))],
              resources |-> created]
    ELSE [status |-> status, resources |-> res]

\* setup_buffer_array as it would be if a field that already has a buffer
\* kept its handle when the capacity grows
setup_buffer_array_keeping_handle(status, res, align) ==
    IF status.current_item_capacity < status.changed_item_count
    THEN LET new_capacity == status.changed_item_count + status.changed_item_count \div 2
             item_size == IF align
                          THEN get_aligned_dynamic_uniform_size(status.item_size)
                          ELSE status.item_size
             total_size == item_size * new_capacity
             created == create_buffer(res, BufferInfo(total_size, {"COPY_DST", "UNIFORM"}))
         IN  [status |-> [status EXCEPT !.current_item_capacity = new_capacity,
                                        !.buffer = IF IsSome(status.buffer)
                                                   THEN status.buffer
                                                   ELSE Some(Len(created))],
              resources |-> created]
    ELSE [status |-> status, resources |-> res]

\* the grow step as it would be if the buffer were sized by the raw item size
\* while the slots are addressed by the aligned size
setup_buffer_array_sized_raw(status, res, align) ==
    IF status.current_item_capacity < status.changed_item_count
    THEN LET new_capacity == status.changed_item_count + status.changed_item_count \div 2
             total_size == status.item_size * new_capacity
             created == create_buffer(res, BufferInfo(total_size, {"COPY_DST", "UNIFORM"}))
         IN  [status |-> [status EXCEPT !.current_item_capacity = new_capacity,
                                        !.buffer = Some(Len(created))],
              resources |-> created]
    ELSE [status |-> status, resources |-> res]

\* the grow step as it would be if the buffer it replaces were removed
setup_buffer_array_removing_old(status, res, align) ==
    IF status.current_item_capacity < status.changed_item_count
    THEN LET new_capacity == status.changed_item_count + status.changed_item_count \div 2
             item_size == IF align
                          THEN get_aligned_dynamic_uniform_size(status.item_size)
                          ELSE status.item_size
             total_size == item_size * new_capacity
             removed == IF IsSome(status.buffer)
                        THEN remove_buffer(res, Unwrap(status.buffer))
                        ELSE res
             created == create_buffer(removed, BufferInfo(total_size, {"COPY_DST", "UNIFORM"}))
         IN  [status |-> [status EXCEPT !.current_item_capacity = new_capacity,
                                        !.buffer = Some(Len(created))],
              resources |-> created]
    ELSE [status |-> status, resources |-> res]

\* returns the status and the resource table
setup_buffer_array(status, res, align) ==
    IF status.current_item_capacity < status.changed_item_count
    THEN LET new_capacity == status.changed_item_count + status.changed_item_count \div 2
             item_size == IF align
                          THEN get_aligned_dynamic_uniform_size(status.item_size)
                          ELSE status.item_size
             total_size == item_size * new_capacity
             created == create_buffer(res, BufferInfo(total_size, {"COPY_DST", "UNIFORM"}))
         IN  [status |-> [status EXCEPT !.current_item_capacity = new_capacity,
                                        !.buffer = Some(Len(created))],
              resources |-> created]
    ELSE [status |-> status, resources |-> res]

\* fields i..Len(arrays) of setup_buffer_arrays; acc = [arrays, resources]
RECURSIVE SetupBufferArraysFrom(_, _, _)
SetupBufferArraysFrom(acc, dynamic, i) ==
    IF i > Len(acc.arrays) THEN acc
    ELSE IF IsSome(acc.arrays[i])
    THEN LET status == Unwrap(acc.arrays[i])
             grown == IF dynamic
                      THEN setup_buffer_array(status, acc.resources, TRUE)
                      ELSE [status |-> status, resources |-> acc.resources]
             cleared == [grown.status EXCEPT !.queued_buffer_writes = <<>>]
         IN  SetupBufferArraysFrom(
                 [arrays |-> [acc.arrays EXCEPT ![i] = Some(cleared)],
                  resources |-> grown.resources],
                 dynamic, i + 1)
    ELSE SetupBufferArraysFrom(acc, dynamic, i + 1)

setup_buffer_arrays(arrays, res, dynamic) ==
    SetupBufferArraysFrom([arrays |-> arrays, resources |-> res], dynamic, 1)

\* the sum of changed_size of the tracked fields before field i
RECURSIVE StagingOffsetOf(_, _)
StagingOffsetOf(arrays, i) ==
    IF i <= 1 THEN 0
    ELSE StagingOffsetOf(arrays, i - 1)
            + (IF IsSome(arrays[i - 1]) THEN Unwrap(arrays[i - 1]).changed_size ELSE 0)

\* update_staging_buffer_offsets as it would be if a field's offset were taken
\* after its own bytes are added to the running size
update_staging_buffer_offsets_after_adding(arrays) ==
    [arrays |-> [i \in 1..Len(arrays) |->
                    IF IsSome(arrays[i])
                    THEN Some([Unwrap(arrays[i]) EXCEPT
                                  !.staging_buffer_offset = StagingOffsetOf(arrays, i + 1)])
                    ELSE None],
     size |-> StagingOffsetOf(arrays, Len(arrays) + 1)]

\* returns the arrays and the total size
update_staging_buffer_offsets(arrays) ==
    [arrays |-> [i \in 1..Len(arrays) |->
                    IF IsSome(arrays[i])
                    THEN Some([Unwrap(arrays[i]) EXCEPT
                                  !.staging_buffer_offset = StagingOffsetOf(arrays, i)])
                    ELSE None],
     size |-> StagingOffsetOf(arrays, Len(arrays) + 1)]

\* get_render_resource_hints(i): field "b" carries RenderResourceHints::BUFFER
RenderResourceHints == <<{}, {"BUFFER"}, {}, {}>>

get_render_resource_hints(i) == RenderResourceHints[i]

QueuedBufferWrite(buffer, target_offset, source_offset, size) ==
    [buffer |-> buffer, target_offset |-> target_offset,
     source_offset |-> source_offset, size |-> size]

\* the panics of the packing system; NoPanic: none
NoPanic == ""
NoEmptySlots == "no empty slots available in array"
UnwrapNone == "called Option::unwrap() on a None value"
SliceOutOfRange == "range end index out of range for slice"

\* lines 210-224: the dynamic branch of the write of one buffer-backed field.
\* Returns the status, the table, the copy target and whether it panicked
\* (buffer.unwrap() on None, or get_or_assign_index).  The cast to u32 of the
\* dynamic index is the identity on the values of this model (< 2^31).
DynamicTarget(status, table, id, name, size) ==
    IF ~IsSome(status.buffer)
    THEN [status |-> status, table |-> table, buffer |-> 0, offset |-> 0,
          panic |-> UnwrapNone]
    ELSE LET buffer == Unwrap(status.buffer)
             got == get_or_assign_index(status, id)
             offset == got.index * got.status.aligned_size
         IN  IF got.panicked
             THEN [status |-> status, table |-> table, buffer |-> 0, offset |-> 0,
                   panic |-> NoEmptySlots]
             ELSE [status |-> got.status,
                   table |-> AssignmentsSet(table, name,
                                BufferAssignment(buffer, Some(offset), size)),
                   buffer |-> buffer,
                   offset |-> offset,
                   panic |-> NoPanic]

\* the non-dynamic branch as it would be if a buffer of another size were
\* left in place when its replacement is created
DedicatedTarget_keeping_old(table, res, i, name, size) ==
    LET info == IF IsSome(table[name])
                THEN get_resource_info(res, Unwrap(table[name]).resource)
                ELSE None
        matching ==
            IsSome(info) /\ Unwrap(info).kind = "Buffer" /\ size = Unwrap(info).size
        usage == IF "BUFFER" \in get_render_resource_hints(i)
                 THEN "STORAGE" ELSE "UNIFORM"
        created == create_buffer(res, BufferInfo(size, {"COPY_DST", usage}))
    IN  IF matching
        THEN [table |-> table, resources |-> res,
              buffer |-> Unwrap(table[name]).resource, offset |-> 0]
        ELSE [table |-> AssignmentsSet(table, name,
                            BufferAssignment(Len(created), None, size)),
              resources |-> created,
              buffer |-> Len(created), offset |-> 0]

\* the non-dynamic branch as it would be if the dedicated buffer were padded
\* to the dynamic alignment
DedicatedTarget_padded(table, res, i, name, size) ==
    LET info == IF IsSome(table[name])
                THEN get_resource_info(res, Unwrap(table[name]).resource)
                ELSE None
        is_buffer == IsSome(info) /\ Unwrap(info).kind = "Buffer"
        padded == get_aligned_dynamic_uniform_size(size)
        matching == is_buffer /\ padded = Unwrap(info).size
        removed == IF is_buffer /\ ~matching
                   THEN remove_buffer(res, Unwrap(table[name]).resource)
                   ELSE res
        usage == IF "BUFFER" \in get_render_resource_hints(i)
                 THEN "STORAGE" ELSE "UNIFORM"
        created == create_buffer(removed, BufferInfo(padded, {"COPY_DST", usage}))
    IN  IF matching
        THEN [table |-> table, resources |-> removed,
              buffer |-> Unwrap(table[name]).resource, offset |-> 0]
        ELSE [table |-> AssignmentsSet(table, name,
                            BufferAssignment(Len(created), None, size)),
              resources |-> created,
              buffer |-> Len(created), offset |-> 0]

\* lines 225-282: the non-dynamic branch.  Returns the table, the resource
\* table and the copy target.
DedicatedTarget(table, res, i, name, size) ==
    LET info == IF IsSome(table[name])
                THEN get_resource_info(res, Unwrap(table[name]).resource)
                ELSE None
        is_buffer == IsSome(info) /\ Unwrap(info).kind = "Buffer"
        matching_buffer ==
            IF is_buffer /\ size = Unwrap(info).size
            THEN Some(Unwrap(table[name]).resource) ELSE None
        buffer_to_remove ==
            IF is_buffer /\ size # Unwrap(info).size
            THEN Some(Unwrap(table[name]).resource) ELSE None
        removed == IF IsSome(buffer_to_remove)
                   THEN remove_buffer(res, Unwrap(buffer_to_remove))
                   ELSE res
        usage == IF "BUFFER" \in get_render_resource_hints(i)
                 THEN "STORAGE" ELSE "UNIFORM"
        created == create_buffer(removed, BufferInfo(size, {"COPY_DST", usage}))
    IN  IF IsSome(matching_buffer)
        THEN [table |-> table, resources |-> removed,
              buffer |-> Unwrap(matching_buffer), offset |-> 0]
        ELSE [table |-> AssignmentsSet(table, name,
                            BufferAssignment(Len(created), None, size)),
              resources |-> created,
              buffer |-> Len(created), offset |-> 0]

\* the write of one field as it would be if current_offset were not advanced
\* past the bytes written
WriteBufferField_not_advancing(acc, uniforms, dynamic, id, staging_len, i) ==
    IF i > Len(acc.arrays) \/ ~IsSome(acc.arrays[i])
    THEN [acc EXCEPT !.panic = UnwrapNone]
    ELSE
    LET size == uniforms[i].buffer_byte_len
        name == get_render_resource_name(i)
        status == Unwrap(acc.arrays[i])
        dyn == DynamicTarget(status, acc.table, id, name, size)
        ded == DedicatedTarget(acc.table, acc.resources, i, name, size)
        status1 == IF dynamic THEN dyn.status ELSE status
        table1 == IF dynamic THEN dyn.table ELSE ded.table
        res1 == IF dynamic THEN acc.resources ELSE ded.resources
        target_buffer == IF dynamic THEN dyn.buffer ELSE ded.buffer
        target_offset == IF dynamic THEN dyn.offset ELSE ded.offset
        staging_buffer_start == status1.staging_buffer_offset + status1.current_offset
        status2 == [status1 EXCEPT
                      !.queued_buffer_writes =
                          Append(@, QueuedBufferWrite(target_buffer, target_offset,
                                                      status1.current_offset, size))]
    IN  IF dynamic /\ dyn.panic # NoPanic
        THEN [acc EXCEPT !.panic = dyn.panic]
        ELSE IF staging_buffer_start + size > staging_len
        THEN [arrays |-> [acc.arrays EXCEPT ![i] = Some(status1)],
              table |-> table1, resources |-> res1, panic |-> SliceOutOfRange]
        ELSE [arrays |-> [acc.arrays EXCEPT ![i] = Some(status2)],
              table |-> table1, resources |-> res1, panic |-> NoPanic]

\* lines 205-300: one buffer-backed field i of one item.
\* acc = [arrays, table, resources, panic]; staging_len is the length of
\* the staging slice handed to the write pass.
WriteBufferField(acc, uniforms, dynamic, id, staging_len, i) ==
    IF i > Len(acc.arrays) \/ ~IsSome(acc.arrays[i])
    THEN [acc EXCEPT !.panic = UnwrapNone]
    ELSE
    LET size == uniforms[i].buffer_byte_len
        name == get_render_resource_name(i)
        status == Unwrap(acc.arrays[i])
        dyn == DynamicTarget(status, acc.table, id, name, size)
        ded == DedicatedTarget(acc.table, acc.resources, i, name, size)
        status1 == IF dynamic THEN dyn.status ELSE status
        table1 == IF dynamic THEN dyn.table ELSE ded.table
        res1 == IF dynamic THEN acc.resources ELSE ded.resources
        target_buffer == IF dynamic THEN dyn.buffer ELSE ded.buffer
        target_offset == IF dynamic THEN dyn.offset ELSE ded.offset
        staging_buffer_start == status1.staging_buffer_offset + status1.current_offset
        status2 == [status1 EXCEPT
                      !.queued_buffer_writes =
                          Append(@, QueuedBufferWrite(target_buffer, target_offset,
                                                      status1.current_offset, size)),
                      !.current_offset = @ + size]
    IN  IF dynamic /\ dyn.panic # NoPanic
        THEN [acc EXCEPT !.panic = dyn.panic]
        ELSE IF staging_buffer_start + size > staging_len
        THEN \* the slice staging_buffer[start..start + size] is out of range
             [arrays |-> [acc.arrays EXCEPT ![i] = Some(status1)],
              table |-> table1, resources |-> res1, panic |-> SliceOutOfRange]
        ELSE [arrays |-> [acc.arrays EXCEPT ![i] = Some(status2)],
              table |-> table1, resources |-> res1, panic |-> NoPanic]

\* fields i.. of setup_uniform_buffer_resources for one item
RECURSIVE SetupUniformBufferResourcesFrom(_, _, _, _, _, _)
SetupUniformBufferResourcesFrom(acc, uniforms, dynamic, id, staging_len, i) ==
    IF i > Len(uniforms) \/ acc.panic # NoPanic THEN acc
    ELSE IF uniforms[i].resource_info = "Buffer"
    THEN SetupUniformBufferResourcesFrom(
            WriteBufferField(acc, uniforms, dynamic, id, staging_len, i),
            uniforms, dynamic, id, staging_len, i + 1)
    ELSE \* textures, samplers and None are ignored
         SetupUniformBufferResourcesFrom(acc, uniforms, dynamic, id, staging_len, i + 1)

\* returns [arrays, table, resources, panic]
setup_uniform_buffer_resources(arrays, uniforms, dynamic, res, table, id, staging_len) ==
    SetupUniformBufferResourcesFrom(
        [arrays |-> arrays, table |-> table, resources |-> res, panic |-> NoPanic],
        uniforms, dynamic, id, staging_len, 1)

(***************************************************************************)
(* CommandQueue                                                            *)
(***************************************************************************)
CopyBufferToBuffer(source_buffer, source_offset, destination_buffer, destination_offset, size) ==
    [command |-> "CopyBufferToBuffer",
     source_buffer |-> source_buffer, source_offset |-> source_offset,
     destination_buffer |-> destination_buffer,
     destination_offset |-> destination_offset, size |-> size]

FreeBuffer(buffer) ==
    [command |-> "FreeBuffer",
     source_buffer |-> buffer, source_offset |-> 0,
     destination_buffer |-> 0, destination_offset |-> 0, size |-> 0]

\* the copy commands as they would be if the field's place in the staging
\* buffer were left out of the source offset
RECURSIVE CopiesOf_from_field_start(_, _, _, _)
CopiesOf_from_field_start(writes, start, staging, k) ==
    IF k > Len(writes) THEN <<>>
    ELSE <<CopyBufferToBuffer(staging, writes[k].source_offset,
                              writes[k].buffer, writes[k].target_offset,
                              writes[k].size)>>
            \o CopiesOf_from_field_start(writes, start, staging, k + 1)

\* the copy commands of one field's queued writes, in order
RECURSIVE CopiesOf(_, _, _, _)
CopiesOf(writes, start, staging, k) ==
    IF k > Len(writes) THEN <<>>
    ELSE <<CopyBufferToBuffer(staging, start + writes[k].source_offset,
                              writes[k].buffer, writes[k].target_offset,
                              writes[k].size)>>
            \o CopiesOf(writes, start, staging, k + 1)

\* fields i.. of copy_staging_buffer_to_final_buffers; acc = [arrays, queue]
RECURSIVE CopyStagingFrom(_, _, _)
CopyStagingFrom(acc, staging, i) ==
    IF i > Len(acc.arrays) THEN acc
    ELSE IF IsSome(acc.arrays[i])
    THEN LET status == Unwrap(acc.arrays[i])
         IN  CopyStagingFrom(
                [arrays |-> [acc.arrays EXCEPT ![i] =
                                Some([status EXCEPT !.queued_buffer_writes = <<>>])],
                 queue |-> acc.queue \o CopiesOf(status.queued_buffer_writes,
                                                 status.staging_buffer_offset,
                                                 staging, 1)],
                staging, i + 1)
    ELSE CopyStagingFrom(acc, staging, i + 1)

copy_staging_buffer_to_final_buffers(arrays, queue, staging) ==
    CopyStagingFrom([arrays |-> arrays, queue |-> queue], staging, 1)

(***************************************************************************)
(* setup_uniform_texture_resources                                         *)
(***************************************************************************)
\* the texture setup of a field as it would be if the sampler were left out
TextureField_without_sampler(acc, uniforms, known, i) ==
    LET name == get_render_resource_name(i)
        texture_handle == uniforms[i].texture
        texture_resource ==
            IF IsSome(texture_handle)
            THEN get_asset_resource(known, Unwrap(texture_handle), TEXTURE_ASSET_INDEX)
            ELSE None
    IN  IF uniforms[i].resource_info # "Texture" \/ ~IsSome(texture_resource)
        THEN acc
        ELSE [table |-> AssignmentsSet(acc.table, name,
                            TextureAssignment(Unwrap(texture_resource))),
              panic |-> NoPanic]

\* field i of one item; acc = [table, panic]
TextureField(acc, uniforms, known, i) ==
    LET name == get_render_resource_name(i)
        texture_handle == uniforms[i].texture
        texture_resource ==
            IF IsSome(texture_handle)
            THEN get_asset_resource(known, Unwrap(texture_handle), TEXTURE_ASSET_INDEX)
            ELSE None
        sampler_resource ==
            IF IsSome(texture_handle)
            THEN get_asset_resource(known, Unwrap(texture_handle), SAMPLER_ASSET_INDEX)
            ELSE None
    IN  IF uniforms[i].resource_info # "Texture" \/ ~IsSome(texture_resource)
        THEN acc
        ELSE IF ~IsSome(sampler_resource)
        THEN [acc EXCEPT !.panic = UnwrapNone]
        ELSE [table |-> AssignmentsSet(
                            AssignmentsSet(acc.table, name,
                                TextureAssignment(Unwrap(texture_resource))),
                            sampler_name(name),
                            SamplerAssignment(Unwrap(sampler_resource))),
              panic |-> NoPanic]

RECURSIVE SetupUniformTextureResourcesFrom(_, _, _, _)
SetupUniformTextureResourcesFrom(acc, uniforms, known, i) ==
    IF i > Len(uniforms) \/ acc.panic # NoPanic THEN acc
    ELSE SetupUniformTextureResourcesFrom(
            TextureField(acc, uniforms, known, i), uniforms, known, i + 1)

\* returns [table, panic]
setup_uniform_texture_resources(uniforms, known, table) ==
    SetupUniformTextureResourcesFrom(
        [table |-> table, panic |-> NoPanic], uniforms, known, 1)

(***************************************************************************)
(* The frame's input.  An item is [id, is_visible, uniforms]: an entity of *)
(* the query (per-object node) or an asset of the store (per-asset node,   *)
(* always visited).  Items are visited in ascending id order in every      *)
(* pass.  An invisible entity's value is never read.                       *)
(***************************************************************************)
ItemChoices(kind) ==
    {None}
        \cup { Some([is_visible |-> TRUE, uniforms |-> u]) : u \in UniformValues }
        \cup (IF kind = "object"
              THEN { Some([is_visible |-> FALSE,
                           uniforms |-> <<Absent, Absent, Absent, Smp>>]) }
              ELSE {})

RECURSIVE ItemsOf(_, _)
ItemsOf(choice, o) ==
    IF o > MaxOwners THEN <<>>
    ELSE (IF IsSome(choice[o])
          THEN <<[id |-> o,
                  is_visible |-> Unwrap(choice[o]).is_visible,
                  uniforms |-> Unwrap(choice[o]).uniforms]>>
          ELSE <<>>)
         \o ItemsOf(choice, o + 1)

\* the entities behind the first invisible one are never read by any pass:
\* one value stands for all they could hold
Unread == Some([is_visible |-> TRUE, uniforms |-> <<Buf(64), Absent, Tex(Some(1)), Smp>>])

Snapshots(kind) ==
    { ItemsOf(choice, 1) :
        choice \in { c \in [Owners -> ItemChoices(kind)] :
                        \A o \in Owners :
                            (\E p \in 1..(o - 1) : IsSome(c[p]) /\ ~Unwrap(c[p]).is_visible)
                                => c[o] \in {None, Unread} } }

\* the objects of the per-asset node's fan-out query and the Handle<T> each
\* holds: two objects share asset 1, a third holds asset 2
ObjectHandles == <<1, 1, 2>>

Objects == 1..Len(ObjectHandles)

\* entry(handle).or_insert_with(RenderResourceAssignments::default)
OrInsertDefault(entry) == IF IsSome(entry) THEN entry ELSE Some(EmptyAssignments)

(***************************************************************************)
(* The passes of the packing system over the items.                        *)
(***************************************************************************)
\* lines 385-391 / 538-541; acc = [arrays, returned]
RECURSIVE CountItems(_, _, _)
CountItems(acc, its, k) ==
    IF k > Len(its) \/ acc.returned THEN acc
    ELSE IF ~its[k].is_visible
    THEN [acc EXCEPT !.returned = TRUE]
    ELSE CountItems(
            [arrays |-> increment_changed_item_counts(acc.arrays, its[k].uniforms),
             returned |-> FALSE],
            its, k + 1)

\* the outcome of a pass: it ran to its end, it hit a return, or it panicked
Completed == "completed"
Returned == "returned"

\* the texture pass as it would be if the tables of owners that are not among
\* the frame's items were dropped
RECURSIVE TextureItems_evicting(_, _, _, _)
TextureItems_evicting(acc, its, known, k) ==
    IF k > Len(its) \/ acc.outcome # Completed
    THEN [acc EXCEPT !.tables =
             [o \in Owners |->
                 IF \E j \in 1..Len(its) : its[j].id = o THEN acc.tables[o] ELSE None]]
    ELSE IF ~its[k].is_visible
    THEN [acc EXCEPT !.outcome = Returned]
    ELSE LET entry == OrInsertDefault(acc.tables[its[k].id])
             got == setup_uniform_texture_resources(its[k].uniforms, known, Unwrap(entry))
         IN  TextureItems_evicting(
                [tables |-> [acc.tables EXCEPT ![its[k].id] = Some(got.table)],
                 outcome |-> IF got.panic # NoPanic THEN got.panic ELSE Completed],
                its, known, k + 1)

\* lines 396-406 / 546-556; acc = [tables, outcome]
RECURSIVE TextureItems(_, _, _, _)
TextureItems(acc, its, known, k) ==
    IF k > Len(its) \/ acc.outcome # Completed THEN acc
    ELSE IF ~its[k].is_visible
    THEN [acc EXCEPT !.outcome = Returned]
    ELSE LET entry == OrInsertDefault(acc.tables[its[k].id])
             got == setup_uniform_texture_resources(its[k].uniforms, known, Unwrap(entry))
         IN  TextureItems(
                [tables |-> [acc.tables EXCEPT ![its[k].id] = Some(got.table)],
                 outcome |-> IF got.panic # NoPanic THEN got.panic ELSE Completed],
                its, known, k + 1)

\* lines 410-422, 431-443 / 560-573, 582-595;
\* acc = [arrays, tables, resources, outcome]
RECURSIVE WriteItems(_, _, _, _, _)
WriteItems(acc, its, dynamic, staging_len, k) ==
    IF k > Len(its) \/ acc.outcome # Completed THEN acc
    ELSE IF ~its[k].is_visible
    THEN [acc EXCEPT !.outcome = Returned]
    ELSE LET entry == OrInsertDefault(acc.tables[its[k].id])
             got == setup_uniform_buffer_resources(
                        acc.arrays, its[k].uniforms, dynamic, acc.resources,
                        Unwrap(entry), its[k].id, staging_len)
         IN  WriteItems(
                [arrays |-> got.arrays,
                 tables |-> [acc.tables EXCEPT ![its[k].id] = Some(got.table)],
                 resources |-> got.resources,
                 outcome |-> IF got.panic # NoPanic THEN got.panic ELSE Completed],
                its, dynamic, staging_len, k + 1)

\* RenderResourceAssignments::extend: every binding of `other` is set in `table`
Extend(table, other) ==
    [n \in BindingNames |-> IF IsSome(other[n]) THEN other[n] ELSE table[n]]

\* CommandQueue::execute on the render context: a FreeBuffer removes the
\* buffer, a CopyBufferToBuffer copies bytes (contents are not modelled)
RECURSIVE ExecuteOn(_, _, _)
ExecuteOn(res, queue, k) ==
    IF k > Len(queue) THEN res
    ELSE ExecuteOn(
            IF queue[k].command = "FreeBuffer"
            THEN remove_buffer(res, queue[k].source_buffer)
            ELSE res,
            queue, k + 1)

(***************************************************************************)
(* Initial state: a node as constructed by new(dynamic_uniforms) and its   *)
(* system as built by get_system().                                        *)
(***************************************************************************)
Init ==
    /\ node \in {"object", "asset"}
    /\ dynamic_uniforms \in BOOLEAN
    /\ pc = "idle"
    /\ panic_message = NoPanic
    /\ frame = 0
    /\ items = <<>>
    /\ uniform_arrays = <<>>
    /\ assignments = [o \in Owners |->
                        IF node = "object" THEN Some(EmptyAssignments) ELSE None]
    /\ render_pipelines = [j \in Objects |-> EmptyAssignments]
    /\ resources = InitialResources
    /\ asset_resources = {}
    /\ staging_buffer_size = 0
    /\ staging_buffer = None
    /\ command_queue = <<>>
    /\ executed = <<>>
    /\ data_size = 0
    /\ aligned = None

(***************************************************************************)
(* Actions.                                                                *)
(***************************************************************************)
\* the system is invoked on the frame's items: reset_changed_item_counts and
\* the counting pass (lines 383-391 / 514-541)
Count ==
    /\ pc = "idle"
    /\ frame < MaxFrames
    /\ \E snapshot \in Snapshots(node) :
        LET counted == CountItems(
                           [arrays |-> reset_changed_item_counts(uniform_arrays),
                            returned |-> FALSE],
                           snapshot, 1)
        IN  /\ items' = snapshot
            /\ uniform_arrays' = counted.arrays
            /\ pc' = IF counted.returned THEN "done" ELSE "counted"
    /\ frame' = frame + 1
    /\ staging_buffer_size' = 0
    /\ staging_buffer' = None
    /\ UNCHANGED <<node, dynamic_uniforms, panic_message, assignments, render_pipelines,
                   resources, asset_resources, command_queue, executed,
                   data_size, aligned>>

\* setup_buffer_arrays and update_staging_buffer_offsets (lines 393-394 / 543-544)
SetupBufferArrays ==
    /\ pc = "counted"
    /\ LET grown == setup_buffer_arrays(uniform_arrays, resources, dynamic_uniforms)
           planned == update_staging_buffer_offsets(grown.arrays)
       IN  /\ uniform_arrays' = planned.arrays
           /\ resources' = grown.resources
           /\ staging_buffer_size' = planned.size
    /\ pc' = "planned"
    /\ UNCHANGED <<node, dynamic_uniforms, panic_message, frame, items, assignments,
                   render_pipelines, asset_resources, staging_buffer,
                   command_queue, executed, data_size, aligned>>

\* the texture pass (lines 396-406 / 546-556)
SetupTextures ==
    /\ pc = "planned"
    /\ LET got == TextureItems([tables |-> assignments, outcome |-> Completed],
                               items, asset_resources, 1)
       IN  /\ assignments' = got.tables
           /\ pc' = CASE got.outcome = Completed -> "textured"
                      [] got.outcome = Returned -> "done"
                      [] OTHER -> "panic"
           /\ panic_message' = IF got.outcome \in {Completed, Returned}
                               THEN NoPanic ELSE got.outcome
    /\ UNCHANGED <<node, dynamic_uniforms, frame, items, uniform_arrays,
                   render_pipelines, resources, asset_resources,
                   staging_buffer_size, staging_buffer, command_queue, executed,
                   data_size, aligned>>

\* the write pass (lines 408-445 / 558-597): with a non-zero staging size
\* create_buffer_mapped creates the staging buffer and runs the pass inside
\* its callback, where a return only leaves the callback
WriteBuffers ==
    /\ pc = "textured"
    /\ LET mapped == staging_buffer_size # 0
           res0 == IF mapped
                   THEN create_buffer(resources,
                                      BufferInfo(staging_buffer_size, {"COPY_SRC"}))
                   ELSE resources
           got == WriteItems([arrays |-> uniform_arrays, tables |-> assignments,
                              resources |-> res0, outcome |-> Completed],
                             items, dynamic_uniforms, staging_buffer_size, 1)
       IN  /\ staging_buffer' = IF mapped THEN Some(Len(res0)) ELSE None
           /\ uniform_arrays' = got.arrays
           /\ assignments' = got.tables
           /\ resources' = got.resources
           /\ pc' = CASE got.outcome \notin {Completed, Returned} -> "panic"
                      [] mapped -> "written"
                      [] got.outcome = Returned -> "done"
                      [] node = "asset" -> "flushed"
                      [] OTHER -> "done"
           /\ panic_message' = IF got.outcome \in {Completed, Returned}
                               THEN NoPanic ELSE got.outcome
    /\ UNCHANGED <<node, dynamic_uniforms, frame, items, render_pipelines,
                   asset_resources, staging_buffer_size, command_queue, executed,
                   data_size, aligned>>

\* the flush as it would be if the staging buffer were freed before the copies
\* out of it are queued
Flush_free_first ==
    /\ pc = "written"
    /\ LET got == copy_staging_buffer_to_final_buffers(
                      uniform_arrays,
                      Append(command_queue, FreeBuffer(Unwrap(staging_buffer))),
                      Unwrap(staging_buffer))
       IN  /\ uniform_arrays' = got.arrays
           /\ command_queue' = got.queue
    /\ pc' = IF node = "asset" THEN "flushed" ELSE "done"
    /\ UNCHANGED <<node, dynamic_uniforms, panic_message, frame, items, assignments,
                   render_pipelines, resources, asset_resources,
                   staging_buffer_size, staging_buffer, executed, data_size, aligned>>

\* the flush as it would be if the copies and the free were carried out on
\* the spot instead of being queued
Flush_executing_inline ==
    /\ pc = "written"
    /\ LET got == copy_staging_buffer_to_final_buffers(
                      uniform_arrays, <<>>, Unwrap(staging_buffer))
           batch == Append(got.queue, FreeBuffer(Unwrap(staging_buffer)))
       IN  /\ uniform_arrays' = got.arrays
           /\ executed' = executed \o batch
           /\ resources' = ExecuteOn(resources, batch, 1)
    /\ pc' = IF node = "asset" THEN "flushed" ELSE "done"
    /\ UNCHANGED <<node, dynamic_uniforms, panic_message, frame, items, assignments,
                   render_pipelines, asset_resources, command_queue,
                   staging_buffer_size, staging_buffer, data_size, aligned>>

\* copy_staging_buffer_to_final_buffers and free_buffer (lines 447-449 / 599-601)
Flush ==
    /\ pc = "written"
    /\ LET got == copy_staging_buffer_to_final_buffers(
                      uniform_arrays, command_queue, Unwrap(staging_buffer))
       IN  /\ uniform_arrays' = got.arrays
           /\ command_queue' = Append(got.queue, FreeBuffer(Unwrap(staging_buffer)))
    /\ pc' = IF node = "asset" THEN "flushed" ELSE "done"
    /\ UNCHANGED <<node, dynamic_uniforms, panic_message, frame, items, assignments,
                   render_pipelines, resources, asset_resources,
                   staging_buffer_size, staging_buffer, executed, data_size, aligned>>

\* the fan-out pass as it would be if only the first object of the query
\* received the cached bindings
FanOut_first_object_only ==
    /\ pc = "flushed"
    /\ render_pipelines' =
          [j \in Objects |->
              IF j = 1 /\ IsSome(assignments[ObjectHandles[j]])
              THEN Extend(render_pipelines[j], Unwrap(assignments[ObjectHandles[j]]))
              ELSE render_pipelines[j]]
    /\ pc' = "done"
    /\ UNCHANGED <<node, dynamic_uniforms, panic_message, frame, items, uniform_arrays,
                   assignments, resources, asset_resources, staging_buffer_size,
                   staging_buffer, command_queue, executed, data_size, aligned>>

\* the fan-out pass of the per-asset node (lines 604-612)
FanOut ==
    /\ pc = "flushed"
    /\ render_pipelines' =
          [j \in Objects |->
              IF IsSome(assignments[ObjectHandles[j]])
              THEN Extend(render_pipelines[j], Unwrap(assignments[ObjectHandles[j]]))
              ELSE render_pipelines[j]]
    /\ pc' = "done"
    /\ UNCHANGED <<node, dynamic_uniforms, panic_message, frame, items, uniform_arrays,
                   assignments, resources, asset_resources, staging_buffer_size,
                   staging_buffer, command_queue, executed, data_size, aligned>>

\* the system returns; its per-invocation locals go out of scope
Return ==
    /\ pc = "done"
    /\ pc' = "returned"
    /\ items' = <<>>
    /\ staging_buffer_size' = 0
    /\ staging_buffer' = None
    /\ UNCHANGED <<node, dynamic_uniforms, panic_message, frame, uniform_arrays, assignments,
                   render_pipelines, resources, asset_resources, command_queue,
                   executed, data_size, aligned>>

\* Node::update (lines 357-366 / 483-492): the render graph runs the node
\* after the frame's systems
Update ==
    /\ pc = "returned"
    /\ pc' = "idle"
    /\ resources' = ExecuteOn(resources, command_queue, 1)
    /\ executed' = executed \o command_queue
    /\ command_queue' = <<>>
    /\ UNCHANGED <<node, dynamic_uniforms, panic_message, frame, items, uniform_arrays,
                   assignments, render_pipelines, asset_resources,
                   staging_buffer_size, staging_buffer, data_size, aligned>>

\* the texture system (out of scope) makes the texture resource and then
\* the sampler resource of texture 1 resolvable
UploadTexture ==
    /\ pc = "idle"
    /\ asset_resources # {TEXTURE_ASSET_INDEX, SAMPLER_ASSET_INDEX}
    /\ asset_resources' =
          IF TEXTURE_ASSET_INDEX \in asset_resources
          THEN asset_resources \cup {SAMPLER_ASSET_INDEX}
          ELSE asset_resources \cup {TEXTURE_ASSET_INDEX}
    /\ UNCHANGED <<node, dynamic_uniforms, panic_message, pc, frame, items, uniform_arrays,
                   assignments, render_pipelines, resources, staging_buffer_size,
                   staging_buffer, command_queue, executed, data_size, aligned>>

Next ==
    \/ Count
    \/ SetupBufferArrays
    \/ SetupTextures
    \/ WriteBuffers
    \/ Flush
    \/ FanOut
    \/ Return
    \/ Update
    \/ UploadTexture

Spec == Init /\ [][Next]_vars

(***************************************************************************)
(* A node constructed with dynamic_uniforms = true, run for one frame more *)
(* than MaxFrames, so that a buffer replaced in the last frame in which a  *)
(* field can first grow past its capacity is followed by a whole frame.    *)
(***************************************************************************)
MaxLaterFrames == MaxFrames + 1

InitDynamic == Init /\ dynamic_uniforms

\* the counting pass (as Count), for frames up to MaxLaterFrames
CountLater ==
    /\ pc = "idle"
    /\ frame < MaxLaterFrames
    /\ \E snapshot \in Snapshots(node) :
        LET counted == CountItems(
                           [arrays |-> reset_changed_item_counts(uniform_arrays),
                            returned |-> FALSE],
                           snapshot, 1)
        IN  /\ items' = snapshot
            /\ uniform_arrays' = counted.arrays
            /\ pc' = IF counted.returned THEN "done" ELSE "counted"
    /\ frame' = frame + 1
    /\ staging_buffer_size' = 0
    /\ staging_buffer' = None
    /\ UNCHANGED <<node, dynamic_uniforms, panic_message, assignments, render_pipelines,
                   resources, asset_resources, command_queue, executed,
                   data_size, aligned>>

NextLater ==
    \/ CountLater
    \/ SetupBufferArrays
    \/ SetupTextures
    \/ WriteBuffers
    \/ Flush
    \/ FanOut
    \/ Return
    \/ Update
    \/ UploadTexture

SpecLater == InitDynamic /\ [][NextLater]_vars

(***************************************************************************)
(* Direct calls of get_aligned_dynamic_uniform_size on sizes below and     *)
(* around 2^24, where usize -> f32 stops being exact.                      *)
(***************************************************************************)
MaxSmallSize == 1024

AlignInputs == (0..MaxSmallSize) \cup (16776960..16777472)

InitAlign ==
    /\ node = "object"
    /\ dynamic_uniforms = TRUE
    /\ pc = "idle"
    /\ panic_message = NoPanic
    /\ frame = 0
    /\ items = <<>>
    /\ uniform_arrays = <<>>
    /\ assignments = [o \in Owners |-> Some(EmptyAssignments)]
    /\ render_pipelines = [j \in Objects |-> EmptyAssignments]
    /\ resources = InitialResources
    /\ asset_resources = {}
    /\ staging_buffer_size = 0
    /\ staging_buffer = None
    /\ command_queue = <<>>
    /\ executed = <<>>
    /\ data_size \in AlignInputs
    /\ aligned = None

Align ==
    /\ aligned = None
    /\ aligned' = Some(get_aligned_dynamic_uniform_size(data_size))
    /\ UNCHANGED <<node, dynamic_uniforms, pc, panic_message, frame, items,
                   uniform_arrays, assignments, render_pipelines, resources,
                   asset_resources, staging_buffer_size, staging_buffer,
                   command_queue, executed, data_size>>

NextAlign == Align

SpecAlign == InitAlign /\ [][NextAlign]_vars

(***************************************************************************)
(* Notions the properties below are stated in.                             *)
(***************************************************************************)
Tracked(arrays, i) == i \in 1..Len(arrays) /\ IsSome(arrays[i])

Status(i) == Unwrap(uniform_arrays[i])

Fields == 1..render_resources_len

BufferBacked(item, i) == item.uniforms[i].resource_info = "Buffer"

ByteLen(item, i) == item.uniforms[i].buffer_byte_len

AllVisible == \A k \in 1..Len(items) : items[k].is_visible

\* the binding table the passes use for an owner
TableOf(tables, o) == Unwrap(OrInsertDefault(tables[o]))

\* total byte length of field i over the first k items
RECURSIVE FieldBytes(_, _)
FieldBytes(i, k) ==
    IF k = 0 THEN 0
    ELSE FieldBytes(i, k - 1)
            + (IF BufferBacked(items[k], i) THEN ByteLen(items[k], i) ELSE 0)

\* total byte length of the fields 1..i over all items
RECURSIVE TotalBytes(_)
TotalBytes(i) ==
    IF i = 0 THEN 0 ELSE TotalBytes(i - 1) + FieldBytes(i, Len(items))

RECURSIVE SumChangedSize(_)
SumChangedSize(i) ==
    IF i = 0 THEN 0
    ELSE SumChangedSize(i - 1)
            + (IF Tracked(uniform_arrays, i) THEN Status(i).changed_size ELSE 0)

\* the number of items whose field i is buffer-backed
FieldItems(i) == Cardinality({ k \in 1..Len(items) : BufferBacked(items[k], i) })

CopyCommands(queue) == SelectSeq(queue, LAMBDA c : c.command = "CopyBufferToBuffer")

FreeCommands(queue) == SelectSeq(queue, LAMBDA c : c.command = "FreeBuffer")

(***************************************************************************)
(* C1.  Dynamic mode: once get_or_assign_index has returned slot index i   *)
(* for an owner, every later call for that owner, in the same or any later *)
(* frame, returns the same i, also in frames where setup_buffer_array      *)
(* grows the capacity and replaces the buffer.  Stated on every step: an   *)
(* index recorded for an owner is still recorded, unchanged, after the     *)
(* step; and the index a write pass returns for an owner (visible in the   *)
(* dynamic offset index * aligned_size it binds) is the recorded one.      *)
(***************************************************************************)
IndexKept(i, o) ==
    IsSome(Status(i).indices[o])
        => /\ Tracked(uniform_arrays', i)
           /\ Unwrap(uniform_arrays'[i]).indices[o] = Status(i).indices[o]

ReturnedIndexIsRecorded ==
    (dynamic_uniforms /\ pc = "textured" /\ pc' \in {"written", "flushed", "done"})
        => \A k \in 1..Len(items) : \A i \in Fields :
              BufferBacked(items[k], i)
                => LET after == Unwrap(uniform_arrays'[i])
                       was == IF Tracked(uniform_arrays, i)
                              THEN Status(i).indices[items[k].id] ELSE None
                       binding == Unwrap(assignments'[items[k].id])[FieldNames[i]]
                   IN  /\ IsSome(after.indices[items[k].id])
                       /\ IsSome(was) => after.indices[items[k].id] = was
                       /\ IsSome(binding)
                       /\ Unwrap(binding).dynamic_index =
                            Some(Unwrap(after.indices[items[k].id]) * after.aligned_size)

SlotIndexNeverChanges ==
    [][ /\ \A i \in Fields : \A o \in Owners :
              Tracked(uniform_arrays, i) => IndexKept(i, o)
        /\ ReturnedIndexIsRecorded ]_vars

\* a write pass of the second frame has just served owner 1 from the slot it
\* got in the first frame, in a buffer that the grow step of this frame
\* created in place of the first frame's buffer
SlotKeptAcrossGrowth ==
    /\ dynamic_uniforms
    /\ frame = 2
    /\ pc = "written"
    /\ Tracked(uniform_arrays, 1)
    /\ Status(1).indices[1] = Some(0)
    /\ Status(1).indices[2] = Some(1)
    /\ Status(1).current_item_capacity = 3
    /\ \E old \in 1..Len(resources) :
          /\ old < Unwrap(Status(1).buffer)
          /\ resources[old] = Some(BufferInfo(Status(1).aligned_size,
                                              {"COPY_DST", "UNIFORM"}))
    /\ \E w \in 1..Len(Status(1).queued_buffer_writes) :
          /\ Status(1).queued_buffer_writes[w].target_offset = 0
          /\ Status(1).queued_buffer_writes[w].buffer = Unwrap(Status(1).buffer)

(***************************************************************************)
(* C2.  Dynamic mode: for every sequence of frames and every choice of the *)
(* live owners of each frame, the grow step has made the capacity large    *)
(* enough that the write pass of the same frame never reaches the          *)
(* "no empty slots available in array" panic of get_or_assign_index.       *)
(***************************************************************************)
WritePassNeverExhaustsCapacity ==
    ~(dynamic_uniforms /\ pc = "panic" /\ panic_message = NoEmptySlots)

(***************************************************************************)
(* C3.  For every field and every sequence of frames,                      *)
(* current_item_capacity never decreases: no step of any frame lowers it,  *)
(* also when fewer items are counted than in the frame before.             *)
(***************************************************************************)
CapacityNeverDecreases ==
    [][ \A i \in Fields :
          Tracked(uniform_arrays, i)
            => /\ Tracked(uniform_arrays', i)
               /\ Unwrap(uniform_arrays'[i]).current_item_capacity
                    >= Status(i).current_item_capacity ]_vars

\* the grow step of a second frame has run with fewer items counted than the
\* capacity the first frame reached
CapacityKeptWhenCountDrops ==
    /\ frame = 2
    /\ pc = "planned"
    /\ Tracked(uniform_arrays, 1)
    /\ Status(1).changed_item_count = 1
    /\ Status(1).current_item_capacity = 3

(***************************************************************************)
(* C4.  For every item_size, aligned_size is item_size rounded up to the   *)
(* next multiple of BIND_BUFFER_ALIGNMENT (256); slot offsets are          *)
(* index * aligned_size and so multiples of 256.  Stated for the value     *)
(* get_aligned_dynamic_uniform_size returns for an arbitrary data_size.    *)
(***************************************************************************)
RoundUp(n, m) == ((n + m - 1) \div m) * m

AlignedSizeIsRoundedUp ==
    IsSome(aligned)
        => /\ Unwrap(aligned) = RoundUp(data_size, BIND_BUFFER_ALIGNMENT)
           /\ Unwrap(aligned) >= data_size
           /\ Unwrap(aligned) % BIND_BUFFER_ALIGNMENT = 0

(***************************************************************************)
(* C5.  In every frame whose counting pass has completed, the staging      *)
(* buffer size requested is the sum over all fields of changed_size, which *)
(* is the total byte length of the buffer-backed fields of the items       *)
(* counted; a staging buffer is only ever allocated with that size and     *)
(* usage COPY_SRC, and when the sum is 0 none is allocated.                *)
(***************************************************************************)
CountingPassCompleted ==
    \/ pc \in {"planned", "textured", "written", "flushed", "panic"}
    \/ pc = "done" /\ AllVisible

WritePassStarted ==
    \/ pc \in {"written", "flushed"}
    \/ pc = "done" /\ AllVisible

StagingSizeIsSumOfChangedSizes ==
    /\ CountingPassCompleted
          => /\ staging_buffer_size = SumChangedSize(render_resources_len)
             /\ staging_buffer_size = TotalBytes(render_resources_len)
    /\ WritePassStarted => (IsSome(staging_buffer) <=> staging_buffer_size # 0)
    /\ staging_buffer_size = 0 => staging_buffer = None
    /\ IsSome(staging_buffer)
          => /\ Unwrap(staging_buffer) \in 1..Len(resources)
             /\ resources[Unwrap(staging_buffer)]
                  = Some(BufferInfo(staging_buffer_size, {"COPY_SRC"}))

\* a write pass has filled a staging buffer holding two fields of two items:
\* 64 + 300 bytes of field a and 128 bytes of field b
StagingHoldsTwoFields ==
    /\ pc = "written"
    /\ Len(items) = 2
    /\ staging_buffer_size = 492
    /\ IsSome(staging_buffer)
    /\ Tracked(uniform_arrays, 2)
    /\ Status(1).changed_size = 364
    /\ Status(2).changed_size = 128

(***************************************************************************)
(* C6.  Dynamic mode, non-zero staging size: after the flush the frame has *)
(* emitted exactly one copy command per buffer-backed (item, field) pair   *)
(* written, field by field and item by item, each with size = the item's   *)
(* byte length, source offset = the field's staging_buffer_offset plus the *)
(* byte lengths of the items of that field written earlier in the frame,   *)
(* and destination offset = the owner's slot index * aligned_size.  In a   *)
(* first frame of n items of 64 bytes this gives capacity n + n/2, staging *)
(* size 64 n and copies from 0, 64, 128, .. to 0, 256, 512, ..             *)
(***************************************************************************)
RECURSIVE ExpectedFieldCopies(_, _)
ExpectedFieldCopies(i, k) ==
    IF k = 0 THEN <<>>
    ELSE ExpectedFieldCopies(i, k - 1)
            \o (IF BufferBacked(items[k], i)
                THEN <<CopyBufferToBuffer(
                          Unwrap(staging_buffer),
                          Status(i).staging_buffer_offset + FieldBytes(i, k - 1),
                          Unwrap(Status(i).buffer),
                          Unwrap(Status(i).indices[items[k].id]) * Status(i).aligned_size,
                          ByteLen(items[k], i))>>
                ELSE <<>>)

RECURSIVE ExpectedCopies(_)
ExpectedCopies(i) ==
    IF i = 0 THEN <<>>
    ELSE ExpectedCopies(i - 1) \o ExpectedFieldCopies(i, Len(items))

Flushed == pc \in {"flushed", "done"} /\ IsSome(staging_buffer)

AllOfSize64 ==
    /\ items # <<>>
    /\ \A k \in 1..Len(items) :
          items[k].uniforms = <<Buf(64), Absent, Tex(Some(1)), Smp>>

OneCopyPerWrittenField ==
    (dynamic_uniforms /\ Flushed)
        => /\ CopyCommands(command_queue) = ExpectedCopies(render_resources_len)
           /\ (frame = 1 /\ AllOfSize64)
                => LET n == Len(items)
                       copies == CopyCommands(command_queue)
                   IN  /\ Status(1).current_item_capacity = n + n \div 2
                       /\ Status(1).aligned_size = 256
                       /\ staging_buffer_size = 64 * n
                       /\ Len(copies) = n
                       /\ \A k \in 1..n :
                             /\ copies[k].size = 64
                             /\ copies[k].source_offset = 64 * (k - 1)
                             /\ copies[k].destination_offset = 256 * (k - 1)

\* a first frame of two 64-byte items has been flushed: two copies, from
\* staging offsets 0 and 64 to buffer offsets 0 and 256
TwoItemsCopied ==
    /\ dynamic_uniforms
    /\ Flushed
    /\ frame = 1
    /\ AllOfSize64
    /\ Len(items) = 2
    /\ Len(CopyCommands(command_queue)) = 2
    /\ CopyCommands(command_queue)[2].source_offset = 64
    /\ CopyCommands(command_queue)[2].destination_offset = 256

(***************************************************************************)
(* C7.  Non-dynamic mode, for every owner and field written in a frame: if *)
(* the item's byte length equals the size of the buffer bound under the    *)
(* field name when the write pass starts, the pass creates no buffer and   *)
(* removes none for it and the binding keeps the same buffer handle; if    *)
(* the byte length differs, the old buffer is removed and a new buffer of  *)
(* exactly the new byte length is created and bound.                       *)
(***************************************************************************)
BoundBuffer(tables, o, i) == TableOf(tables, o)[FieldNames[i]]

BoundSize(o, i) ==
    LET info == get_resource_info(resources, Unwrap(BoundBuffer(assignments, o, i)).resource)
    IN  IF IsSome(info) /\ Unwrap(info).kind = "Buffer" THEN Some(Unwrap(info).size) ELSE None

HasBoundBuffer(o, i) == IsSome(BoundBuffer(assignments, o, i)) /\ IsSome(BoundSize(o, i))

WrittenPairs ==
    { <<k, i>> \in (1..Len(items)) \X Fields : BufferBacked(items[k], i) }

ReusingPairs ==
    { p \in WrittenPairs :
        /\ HasBoundBuffer(items[p[1]].id, p[2])
        /\ BoundSize(items[p[1]].id, p[2]) = Some(ByteLen(items[p[1]], p[2])) }

ReplacingPairs ==
    { p \in WrittenPairs :
        /\ HasBoundBuffer(items[p[1]].id, p[2])
        /\ BoundSize(items[p[1]].id, p[2]) # Some(ByteLen(items[p[1]], p[2])) }

DedicatedWritePass ==
    ~dynamic_uniforms /\ pc = "textured" /\ pc' \in {"written", "flushed", "done"}

DedicatedBufferReusedOrReplaced ==
    [][ DedicatedWritePass
          => /\ \A p \in ReusingPairs :
                   LET old == BoundBuffer(assignments, items[p[1]].id, p[2])
                   IN  /\ BoundBuffer(assignments', items[p[1]].id, p[2]) = old
                       /\ resources'[Unwrap(old).resource] = resources[Unwrap(old).resource]
             /\ \A p \in ReplacingPairs :
                   LET old == Unwrap(BoundBuffer(assignments, items[p[1]].id, p[2]))
                       new == BoundBuffer(assignments', items[p[1]].id, p[2])
                       len == ByteLen(items[p[1]], p[2])
                   IN  /\ resources'[old.resource] = None
                       /\ IsSome(new)
                       /\ Unwrap(new) = BufferAssignment(Unwrap(new).resource, None, len)
                       /\ Unwrap(new).resource \in (Len(resources) + 1)..Len(resources')
                       /\ IsSome(resources'[Unwrap(new).resource])
                       /\ Unwrap(resources'[Unwrap(new).resource]).kind = "Buffer"
                       /\ Unwrap(resources'[Unwrap(new).resource]).size = len
             \* buffers created: the staging buffer and one per pair not reused
             /\ Len(resources') = Len(resources)
                                    + (IF staging_buffer_size # 0 THEN 1 ELSE 0)
                                    + Cardinality(WrittenPairs \ ReusingPairs)
             \* buffers removed: one per pair replaced
             /\ Cardinality({ r \in 1..Len(resources) :
                                IsSome(resources[r]) /\ resources'[r] = None })
                  = Cardinality(ReplacingPairs) ]_vars

\* the write pass of a second frame has kept owner 1's 64-byte buffer of the
\* first frame and has replaced owner 2's 64-byte buffer by one of 300 bytes
OneReusedOneReplaced ==
    /\ ~dynamic_uniforms
    /\ node = "object"
    /\ frame = 2
    /\ pc = "written"
    /\ Len(items) = 2
    /\ ByteLen(items[1], 1) = 64
    /\ ByteLen(items[2], 1) = 300
    /\ LET kept == Unwrap(BoundBuffer(assignments, 1, 1)).resource
           new == Unwrap(BoundBuffer(assignments, 2, 1)).resource
       IN  /\ kept < Unwrap(staging_buffer)
           /\ resources[kept] = Some(BufferInfo(64, {"COPY_DST", "UNIFORM"}))
           /\ new > Unwrap(staging_buffer)
           /\ resources[new] = Some(BufferInfo(300, {"COPY_DST", "UNIFORM"}))
           /\ \E old \in 1..(Unwrap(staging_buffer) - 1) :
                 /\ resources[old] = None
                 /\ \A c \in 1..Len(executed) : executed[c].source_buffer # old

(***************************************************************************)
(* C8.  Per-asset node: in every frame each asset of the store goes        *)
(* through the write pass exactly once, however many objects hold its      *)
(* handle: every field has one queued write per asset carrying it, and the *)
(* flush emits one copy per written (asset, field) pair.  After the        *)
(* fan-out pass every object whose handle has a cached binding table       *)
(* holds, for each name bound in that table, the binding of the cache, so  *)
(* objects sharing a handle hold identical bindings for those names.       *)
(***************************************************************************)
CacheOf(j) == assignments[ObjectHandles[j]]

AssetPackedOnceAndFannedOut ==
    node = "asset"
        => /\ pc = "written"
                => \A i \in Fields :
                      Tracked(uniform_arrays, i)
                        => Len(Status(i).queued_buffer_writes) = FieldItems(i)
           /\ Flushed
                => Len(CopyCommands(command_queue)) = Cardinality(WrittenPairs)
           /\ pc = "done"
                => /\ \A j \in Objects : \A n \in BindingNames :
                         (IsSome(CacheOf(j)) /\ IsSome(Unwrap(CacheOf(j))[n]))
                            => render_pipelines[j][n] = Unwrap(CacheOf(j))[n]
                   /\ \A j, l \in Objects : \A n \in BindingNames :
                         (/\ ObjectHandles[j] = ObjectHandles[l]
                          /\ IsSome(CacheOf(j))
                          /\ IsSome(Unwrap(CacheOf(j))[n]))
                            => render_pipelines[j][n] = render_pipelines[l][n]

\* one asset held by two objects has been packed with a single copy and both
\* objects have received its buffer binding
SharedAssetPackedOnce ==
    /\ node = "asset"
    /\ pc = "done"
    /\ Len(items) = 1
    /\ items[1].id = ObjectHandles[1]
    /\ ObjectHandles[1] = ObjectHandles[2]
    /\ Len(CopyCommands(command_queue)) = 1
    /\ IsSome(CacheOf(1))
    /\ IsSome(Unwrap(CacheOf(1))["a"])
    /\ render_pipelines[1]["a"] = Unwrap(CacheOf(1))["a"]
    /\ render_pipelines[2]["a"] = Unwrap(CacheOf(1))["a"]

(***************************************************************************)
(* C9.  In every frame with non-zero staging size exactly one staging      *)
(* buffer is allocated; every copy command appended in the frame has it as *)
(* its source; all the frame's copy commands are appended before the free  *)
(* command for the staging buffer; exactly one free command is appended    *)
(* for it; and the queued-write lists are empty after the flush.           *)
(***************************************************************************)
StagingBuffers ==
    { r \in 1..Len(resources) :
        IsSome(resources[r]) /\ Unwrap(resources[r]).buffer_usage = {"COPY_SRC"} }

CopiesThenOneFree ==
    /\ (pc = "written" /\ staging_buffer_size # 0)
          => /\ StagingBuffers = {Unwrap(staging_buffer)}
             /\ command_queue = <<>>
    /\ Flushed
          => LET n == Len(command_queue)
             IN  /\ staging_buffer_size # 0
                 /\ StagingBuffers = {Unwrap(staging_buffer)}
                 /\ n >= 1
                 /\ command_queue[n] = FreeBuffer(Unwrap(staging_buffer))
                 /\ \A c \in 1..(n - 1) :
                       /\ command_queue[c].command = "CopyBufferToBuffer"
                       /\ command_queue[c].source_buffer = Unwrap(staging_buffer)
                 /\ Len(FreeCommands(command_queue)) = 1
                 /\ Len(CopyCommands(command_queue)) = Cardinality(WrittenPairs)
                 /\ \A i \in Fields :
                       Tracked(uniform_arrays, i)
                         => Status(i).queued_buffer_writes = <<>>

\* a flush has appended three copies out of the staging buffer, then its free
ThreeCopiesThenFree ==
    /\ Flushed
    /\ Len(command_queue) = 4
    /\ command_queue[3].command = "CopyBufferToBuffer"
    /\ command_queue[3].source_buffer = Unwrap(staging_buffer)
    /\ command_queue[4] = FreeBuffer(Unwrap(staging_buffer))

(***************************************************************************)
(* C10.  The packing system only appends copy and free commands to the     *)
(* command queue and never executes them: no step of the system changes    *)
(* what has been executed or frees a buffer, and the queue only grows at   *)
(* its end.  Commands are executed only by the node's update hook, which   *)
(* executes the whole queue in order and leaves it empty, so that every    *)
(* command appended during a frame's packing is executed exactly once.     *)
(***************************************************************************)
UpdateStep == pc = "returned" /\ pc' = "idle"

IsPrefix(s, t) == Len(s) <= Len(t) /\ SubSeq(t, 1, Len(s)) = s

NoRepeats(s) == \A a, b \in 1..Len(s) : s[a] = s[b] => a = b

ExecutedOnlyByUpdateExactlyOnce ==
    /\ [](/\ NoRepeats(executed \o command_queue)
          /\ pc = "idle" => command_queue = <<>>)
    /\ [][ /\ ~UpdateStep
              => /\ executed' = executed
                 /\ IsPrefix(command_queue, command_queue')
                 /\ \A r \in 1..Len(resources) :
                       IsSome(resources[r]) /\ Unwrap(resources[r]).kind = "Buffer"
                          /\ resources'[r] = None
                          => ~dynamic_uniforms /\ pc = "textured"
           /\ UpdateStep
              => /\ executed' = executed \o command_queue
                 /\ command_queue' = <<>>
                 /\ \A c \in 1..Len(command_queue) :
                       command_queue[c].command = "FreeBuffer"
                          => resources'[command_queue[c].source_buffer] = None ]_vars

\* two frames have each queued copies and a free, and the update hook has
\* executed both batches: the queue is empty and both staging buffers are gone
TwoBatchesExecuted ==
    /\ pc = "idle"
    /\ frame = 2
    /\ command_queue = <<>>
    /\ Len(FreeCommands(executed)) = 2
    /\ Len(CopyCommands(executed)) >= 2
    /\ \A c \in 1..Len(executed) :
          executed[c].command = "FreeBuffer"
             => resources[executed[c].source_buffer] = None

(***************************************************************************)
(* C11.  Texture binding setup never fails fatally: for every              *)
(* texture-backed field whose texture resource or sampler resource does    *)
(* not resolve, the texture pass leaves the bindings of the field and of   *)
(* its sampler as they were, and the pass does not panic.                  *)
(***************************************************************************)
TextureBacked(item, i) ==
    item.uniforms[i].resource_info = "Texture" /\ IsSome(item.uniforms[i].texture)

Resolvable == {TEXTURE_ASSET_INDEX, SAMPLER_ASSET_INDEX} \subseteq asset_resources

TextureSetupNeverFails ==
    [][ pc = "planned"
          => /\ pc' # "panic"
             /\ panic_message' = NoPanic
             /\ ~Resolvable
                  => \A k \in 1..Len(items) : \A i \in Fields :
                        TextureBacked(items[k], i)
                          => LET before == TableOf(assignments, items[k].id)
                                 after == TableOf(assignments', items[k].id)
                             IN  /\ after[FieldNames[i]] = before[FieldNames[i]]
                                 /\ after[sampler_name(FieldNames[i])]
                                      = before[sampler_name(FieldNames[i])] ]_vars

(***************************************************************************)
(* C12.  Per-object node: an invisible object stops only the pass that     *)
(* meets it; the frame's remaining steps still run for the objects that    *)
(* precede it.  Stated at the end of the system: every buffer-backed field *)
(* of every object preceding the first invisible one is bound, and the     *)
(* copies of those fields and the free of the staging buffer are queued.   *)
(***************************************************************************)
Preceding == { k \in 1..Len(items) : \A j \in 1..k : items[j].is_visible }

PrecedingPairs == { p \in WrittenPairs : p[1] \in Preceding }

InvisibleObjectStopsOnlyItsPass ==
    (node = "object" /\ pc = "done")
        => /\ \A p \in PrecedingPairs :
                 IsSome(BoundBuffer(assignments, items[p[1]].id, p[2]))
           /\ PrecedingPairs # {}
                => /\ Len(CopyCommands(command_queue)) = Cardinality(PrecedingPairs)
                   /\ Len(FreeCommands(command_queue)) = 1

(***************************************************************************)
(* C13.  Grow step in dynamic mode, for every field: if changed_item_count *)
(* exceeds current_item_capacity, the capacity becomes changed_item_count  *)
(* + changed_item_count / 2 (rounded down) and a new buffer of             *)
(* new capacity * aligned_size bytes is created; otherwise the capacity    *)
(* and the buffer handle are unchanged.  So after the grow step of every   *)
(* frame current_item_capacity >= changed_item_count.                      *)
(***************************************************************************)
GrowStep == dynamic_uniforms /\ pc = "counted" /\ pc' = "planned"

Growing(i) ==
    Tracked(uniform_arrays, i)
        /\ Status(i).changed_item_count > Status(i).current_item_capacity

GrowStepGrowsByHalf ==
    /\ [][ GrowStep
             => /\ \A i \in Fields :
                      Tracked(uniform_arrays, i)
                        => LET before == Status(i)
                               after == Unwrap(uniform_arrays'[i])
                               count == before.changed_item_count
                           IN  IF Growing(i)
                               THEN /\ after.current_item_capacity = count + count \div 2
                                    /\ IsSome(after.buffer)
                                    /\ Unwrap(after.buffer)
                                         \in (Len(resources) + 1)..Len(resources')
                                    /\ resources'[Unwrap(after.buffer)]
                                         = Some(BufferInfo(
                                              (count + count \div 2) * before.aligned_size,
                                              {"COPY_DST", "UNIFORM"}))
                               ELSE /\ after.current_item_capacity
                                         = before.current_item_capacity
                                    /\ after.buffer = before.buffer
                \* one buffer is created per growing field, and none otherwise
                /\ Len(resources') = Len(resources)
                                       + Cardinality({ i \in Fields : Growing(i) })
                /\ SubSeq(resources', 1, Len(resources)) = resources ]_vars
    /\ []((dynamic_uniforms /\ pc \in {"planned", "textured", "written", "flushed"})
            => \A i \in Fields :
                  Tracked(uniform_arrays, i)
                    => Status(i).current_item_capacity >= Status(i).changed_item_count)

\* the grow step of a frame counting two items has created a buffer of three
\* aligned slots
GrownToThreeSlots ==
    /\ dynamic_uniforms
    /\ pc = "planned"
    /\ Tracked(uniform_arrays, 1)
    /\ Status(1).changed_item_count = 2
    /\ Status(1).current_item_capacity = 3
    /\ Status(1).aligned_size = 256
    /\ resources[Unwrap(Status(1).buffer)] = Some(BufferInfo(768, {"COPY_DST", "UNIFORM"}))

(***************************************************************************)
(* C14.  In a frame where a dynamic field's buffer is grown, the grow step *)
(* leaves the slot-index map and current_index unchanged and installs a    *)
(* new buffer handle; the handle then stays until the write pass, which    *)
(* binds every owner it writes to that handle (not the replaced one) at    *)
(* dynamic offset index * aligned_size and queues every copy of the field  *)
(* with that handle as its target.                                         *)
(***************************************************************************)
DynamicWritePass ==
    dynamic_uniforms /\ pc = "textured" /\ pc' \in {"written", "flushed", "done"}

WritesOfItem(i, k) ==
    { w \in 1..Len(Unwrap(uniform_arrays'[i]).queued_buffer_writes) :
        Unwrap(uniform_arrays'[i]).queued_buffer_writes[w].target_offset
          = Unwrap(Unwrap(uniform_arrays'[i]).indices[items[k].id])
              * Status(i).aligned_size }

GrownBufferServesTheFrame ==
    [][ /\ GrowStep
          => \A i \in Fields :
                Tracked(uniform_arrays, i)
                  => LET after == Unwrap(uniform_arrays'[i])
                     IN  /\ after.indices = Status(i).indices
                         /\ after.current_index = Status(i).current_index
                         /\ Growing(i)
                              => /\ after.buffer # Status(i).buffer
                                 /\ Unwrap(after.buffer) > Len(resources)
        /\ (dynamic_uniforms /\ pc \in {"planned", "textured", "written", "flushed", "done"})
          => \A i \in Fields :
                Tracked(uniform_arrays, i)
                  => Unwrap(uniform_arrays'[i]).buffer = Status(i).buffer
        /\ DynamicWritePass
          => \A p \in WrittenPairs :
                LET k == p[1]
                    i == p[2]
                    after == Unwrap(uniform_arrays'[i])
                    binding == Unwrap(BoundBuffer(assignments', items[k].id, i))
                IN  /\ binding.resource = Unwrap(Status(i).buffer)
                    /\ binding.dynamic_index
                         = Some(Unwrap(after.indices[items[k].id]) * Status(i).aligned_size)
                    /\ WritesOfItem(i, k) # {}
                    /\ \A w \in 1..Len(after.queued_buffer_writes) :
                          after.queued_buffer_writes[w].buffer = Unwrap(Status(i).buffer) ]_vars

\* a second frame has grown field a's buffer and flushed: owner 1, bound to
\* the first buffer before, is bound to the new one at its old slot 0, the
\* replaced buffer still exists, and every copy targets the new one
BoundToGrownBuffer ==
    /\ dynamic_uniforms
    /\ node = "object"
    /\ Flushed
    /\ frame = 2
    /\ Len(items) = 2
    /\ Status(1).current_item_capacity = 3
    /\ LET new == Unwrap(Status(1).buffer)
           binding == Unwrap(BoundBuffer(assignments, 1, 1))
       IN  /\ binding.resource = new
           /\ binding.dynamic_index = Some(0)
           /\ \E old \in 1..(new - 1) :
                 resources[old] = Some(BufferInfo(256, {"COPY_DST", "UNIFORM"}))
           /\ \A c \in 1..Len(CopyCommands(command_queue)) :
                 CopyCommands(command_queue)[c].destination_buffer = new

(***************************************************************************)
(* C15.  After update_staging_buffer_offsets, taking the tracked fields in *)
(* field order, each field's staging_buffer_offset is the sum of           *)
(* changed_size of the tracked fields before it: the ranges                *)
(* [staging_buffer_offset, staging_buffer_offset + changed_size) are       *)
(* contiguous, pairwise disjoint and exactly cover [0, total size).        *)
(***************************************************************************)
TrackedFields == { i \in Fields : Tracked(uniform_arrays, i) }

RangeEnd(i) == Status(i).staging_buffer_offset + Status(i).changed_size

NextTracked(i, j) ==
    /\ i \in TrackedFields /\ j \in TrackedFields /\ i < j
    /\ \A m \in TrackedFields : ~(i < m /\ m < j)

StagingRangesTile ==
    CountingPassCompleted
        => /\ \A i \in TrackedFields :
                 Status(i).staging_buffer_offset = SumChangedSize(i - 1)
           /\ \A i \in TrackedFields :
                 (\A m \in TrackedFields : i <= m)
                    => Status(i).staging_buffer_offset = 0
           /\ \A i, j \in TrackedFields :
                 NextTracked(i, j) => Status(j).staging_buffer_offset = RangeEnd(i)
           /\ \A i, j \in TrackedFields :
                 i < j => RangeEnd(i) <= Status(j).staging_buffer_offset
           /\ \A i \in TrackedFields :
                 (\A m \in TrackedFields : m <= i) => RangeEnd(i) = staging_buffer_size
           /\ TrackedFields = {} => staging_buffer_size = 0

\* the plan of a frame with 364 bytes of field a and 128 bytes of field b
TwoRangesPlanned ==
    /\ pc = "planned"
    /\ TrackedFields = {1, 2}
    /\ Status(1).staging_buffer_offset = 0
    /\ Status(1).changed_size = 364
    /\ Status(2).staging_buffer_offset = 364
    /\ Status(2).changed_size = 128
    /\ staging_buffer_size = 492

(***************************************************************************)
(* C16.  reset_changed_item_counts sets changed_item_count, changed_size   *)
(* and current_offset to 0 for every tracked field and leaves each field's *)
(* indices map, current_index, current_item_capacity, buffer handle,       *)
(* item_size and aligned_size unchanged.  Stated on the step that starts a *)
(* frame (the reset followed by the counting pass): what the step leaves   *)
(* in the three counters is what this frame's counting alone adds to 0,    *)
(* and the other fields are as before the step.                            *)
(***************************************************************************)
CountedItems(i) ==
    { k \in 1..Len(items') :
        /\ \A j \in 1..k : items'[j].is_visible
        /\ items'[k].uniforms[i].resource_info = "Buffer" }

RECURSIVE SumOfLens(_, _)
SumOfLens(i, ks) ==
    IF ks = {} THEN 0
    ELSE LET k == CHOOSE x \in ks : TRUE
         IN  items'[k].uniforms[i].buffer_byte_len + SumOfLens(i, ks \ {k})

FrameStart == pc = "idle" /\ pc' \in {"counted", "done"}

ResetZeroesOnlyTheCounters ==
    [][ FrameStart
          => \A i \in Fields :
                Tracked(uniform_arrays, i)
                  => LET before == Status(i)
                         after == Unwrap(uniform_arrays'[i])
                     IN  /\ after.changed_item_count = Cardinality(CountedItems(i))
                         /\ after.changed_size = SumOfLens(i, CountedItems(i))
                         /\ after.current_offset = 0
                         /\ after.indices = before.indices
                         /\ after.current_index = before.current_index
                         /\ after.current_item_capacity = before.current_item_capacity
                         /\ after.buffer = before.buffer
                         /\ after.item_size = before.item_size
                         /\ after.aligned_size = before.aligned_size
                         /\ after.staging_buffer_offset = before.staging_buffer_offset
                         /\ after.queued_buffer_writes = before.queued_buffer_writes ]_vars

\* a second frame with no items has started: the reset alone has acted on
\* field a, whose slot table and buffer of the first frame are still there
ResetAfterAFrame ==
    /\ frame = 2
    /\ pc = "counted"
    /\ items = <<>>
    /\ dynamic_uniforms
    /\ Tracked(uniform_arrays, 1)
    /\ Status(1).changed_item_count = 0
    /\ Status(1).changed_size = 0
    /\ Status(1).current_offset = 0
    /\ Status(1).indices[1] = Some(0)
    /\ Status(1).indices[2] = Some(1)
    /\ Status(1).current_index = 2
    /\ Status(1).current_item_capacity = 3
    /\ IsSome(Status(1).buffer)

(***************************************************************************)
(* C17.  Non-dynamic mode: no shared per-field buffer is created and no    *)
(* slot index is assigned (every field's indices map stays empty and its   *)
(* current_item_capacity stays 0); every buffer created for a field has    *)
(* exactly the item's raw byte length, with no alignment padding; every    *)
(* binding written has no dynamic offset; every queued copy has            *)
(* destination offset 0.                                                   *)
(***************************************************************************)
BufferBindings ==
    { <<o, i>> \in Owners \X Fields :
        /\ IsSome(assignments[o])
        /\ IsSome(Unwrap(assignments[o])[FieldNames[i]])
        /\ Unwrap(Unwrap(assignments[o])[FieldNames[i]]).kind = "Buffer" }

BindingOf(b) == Unwrap(Unwrap(assignments[b[1]])[FieldNames[b[2]]])

DedicatedBuffers ==
    { r \in 1..Len(resources) :
        /\ IsSome(resources[r])
        /\ Unwrap(resources[r]).kind = "Buffer"
        /\ "COPY_DST" \in Unwrap(resources[r]).buffer_usage }

DedicatedBuffersAreUnpadded ==
    ~dynamic_uniforms
        => /\ \A i \in TrackedFields :
                 /\ Status(i).indices = NoIndices
                 /\ Status(i).current_index = 0
                 /\ Status(i).current_item_capacity = 0
                 /\ Status(i).buffer = None
                 /\ \A w \in 1..Len(Status(i).queued_buffer_writes) :
                       Status(i).queued_buffer_writes[w].target_offset = 0
           \* every buffer there is belongs to exactly one binding, and has
           \* the size that binding was written with
           /\ \A r \in DedicatedBuffers :
                 \E b \in BufferBindings :
                    /\ BindingOf(b).resource = r
                    /\ Unwrap(resources[r]).size = BindingOf(b).range
                    /\ \A c \in BufferBindings : BindingOf(c).resource = r => c = b
           /\ \A b \in BufferBindings : BindingOf(b).dynamic_index = None
           \* a binding written in this frame has the item's byte length
           /\ (pc \in {"written", "flushed"} \/ (pc = "done" /\ AllVisible))
                => \A p \in WrittenPairs :
                      LET binding == Unwrap(BoundBuffer(assignments, items[p[1]].id, p[2]))
                      IN  /\ binding.range = ByteLen(items[p[1]], p[2])
                          /\ resources[binding.resource]
                               = Some(BufferInfo(
                                    ByteLen(items[p[1]], p[2]),
                                    {"COPY_DST",
                                     IF "BUFFER" \in get_render_resource_hints(p[2])
                                     THEN "STORAGE" ELSE "UNIFORM"}))
           /\ \A c \in 1..Len(command_queue) :
                 command_queue[c].destination_offset = 0
           /\ \A c \in 1..Len(executed) : executed[c].destination_offset = 0

\* a non-dynamic frame has been flushed with a dedicated buffer of 300 bytes,
\* not a multiple of the alignment, bound without dynamic offset
UnpaddedBufferBound ==
    /\ ~dynamic_uniforms
    /\ Flushed
    /\ \E p \in WrittenPairs :
          LET binding == Unwrap(BoundBuffer(assignments, items[p[1]].id, p[2]))
          IN  /\ ByteLen(items[p[1]], p[2]) = 300
              /\ binding.dynamic_index = None
              /\ Unwrap(resources[binding.resource]).size = 300
              /\ \E c \in 1..Len(command_queue) :
                    /\ command_queue[c].destination_buffer = binding.resource
                    /\ command_queue[c].destination_offset = 0
                    /\ command_queue[c].size = 300

(***************************************************************************)
(* C18.  When the texture and the sampler of a texture-backed field both   *)
(* resolve, texture setup sets the binding named after the field to the    *)
(* texture resource and the binding named <field>_sampler to the sampler   *)
(* resource, whatever was bound under those names, and changes no other    *)
(* binding.  The buffer write pass, for its part, changes no binding,      *)
(* queues no write and advances no offset for texture-backed,              *)
(* sampler-backed or absent fields.                                        *)
(***************************************************************************)
TextureNamesOf(item) ==
    { FieldNames[i] : i \in { f \in Fields : TextureBacked(item, f) } }
        \cup { sampler_name(FieldNames[i]) : i \in { f \in Fields : TextureBacked(item, f) } }

TexturePass == pc = "planned" /\ pc' = "textured"

WritePass == pc = "textured" /\ pc' \in {"written", "flushed", "done"}

TexturesBoundBuffersPassIgnoresThem ==
    [][ /\ (TexturePass /\ Resolvable)
          => \A k \in 1..Len(items) :
                LET before == TableOf(assignments, items[k].id)
                    after == TableOf(assignments', items[k].id)
                IN  /\ \A i \in Fields :
                          TextureBacked(items[k], i)
                            => /\ after[FieldNames[i]]
                                    = Some(TextureAssignment(
                                        Unwrap(get_asset_resource(
                                            asset_resources,
                                            Unwrap(items[k].uniforms[i].texture),
                                            TEXTURE_ASSET_INDEX))))
                               /\ after[sampler_name(FieldNames[i])]
                                    = Some(SamplerAssignment(
                                        Unwrap(get_asset_resource(
                                            asset_resources,
                                            Unwrap(items[k].uniforms[i].texture),
                                            SAMPLER_ASSET_INDEX))))
                    /\ \A n \in BindingNames \ TextureNamesOf(items[k]) :
                          after[n] = before[n]
        /\ WritePass
          => /\ \A k \in 1..Len(items) : \A i \in Fields :
                   ~BufferBacked(items[k], i)
                     => /\ TableOf(assignments', items[k].id)[FieldNames[i]]
                             = TableOf(assignments, items[k].id)[FieldNames[i]]
                        /\ TableOf(assignments', items[k].id)[sampler_name(FieldNames[i])]
                             = TableOf(assignments, items[k].id)[sampler_name(FieldNames[i])]
             /\ \A i \in Fields :
                   Tracked(uniform_arrays, i)
                     => /\ Len(Unwrap(uniform_arrays'[i]).queued_buffer_writes)
                             = FieldItems(i)
                        /\ Unwrap(uniform_arrays'[i]).current_offset
                             = FieldBytes(i, Len(items))
             /\ \A i \in Fields :
                   ~Tracked(uniform_arrays, i) => ~Tracked(uniform_arrays', i) ]_vars

\* the texture pass and the write pass have run over an item with a resolved
\* texture in field t: t and t_sampler are bound to the texture and the
\* sampler, field a alone has a queued write and field t is not tracked
TextureAndSamplerBound ==
    /\ pc = "written"
    /\ Resolvable
    /\ Len(items) = 1
    /\ TextureBacked(items[1], 3)
    /\ TableOf(assignments, items[1].id)["t"] = Some(TextureAssignment(1))
    /\ TableOf(assignments, items[1].id)["t_sampler"] = Some(SamplerAssignment(2))
    /\ TableOf(assignments, items[1].id)["a_sampler"] = None
    /\ Len(Status(1).queued_buffer_writes) = 1
    /\ ~Tracked(uniform_arrays, 3)

(***************************************************************************)
(* C19.  Per-asset node: once an asset identity has an entry in the        *)
(* binding-table cache, the entry persists in every later frame, also in   *)
(* frames where the asset is no longer in the asset store: the set of      *)
(* cache keys never shrinks, a name bound in an entry stays bound, and in  *)
(* dynamic mode the slot index recorded for the entry's owner stays.       *)
(***************************************************************************)
CacheKeys == { o \in Owners : IsSome(assignments[o]) }

CacheIsNeverEvicted ==
    [][ node = "asset"
          => \A o \in CacheKeys :
                /\ IsSome(assignments'[o])
                /\ \A n \in BindingNames :
                      IsSome(Unwrap(assignments[o])[n])
                         => IsSome(Unwrap(assignments'[o])[n])
                /\ \A i \in TrackedFields :
                      IsSome(Status(i).indices[o])
                         => Unwrap(uniform_arrays'[i]).indices[o] = Status(i).indices[o] ]_vars

\* a second frame has run without asset 1 in the store: its cache entry, its
\* buffer binding and its slot are still there
EntryOutlivesAsset ==
    /\ node = "asset"
    /\ dynamic_uniforms
    /\ frame = 2
    /\ pc = "done"
    /\ Len(items) = 1
    /\ items[1].id = 2
    /\ CacheKeys = {1, 2}
    /\ IsSome(Unwrap(assignments[1])["a"])
    /\ Status(1).indices[1] = Some(0)
    /\ Status(1).indices[2] = Some(1)

(***************************************************************************)
(* C20.  In every reachable state of a dynamic field's slot table the      *)
(* indices map is injective (no two owners share a slot index), its set of *)
(* values is exactly {0, ..., current_index - 1}, and                      *)
(* current_index <= current_item_capacity.                                 *)
(***************************************************************************)
SlotOwners(i) == { o \in Owners : IsSome(Status(i).indices[o]) }

SlotsOf(i) == { Unwrap(Status(i).indices[o]) : o \in SlotOwners(i) }

SlotTableIsDense ==
    dynamic_uniforms
        => \A i \in TrackedFields :
              /\ \A o, q \in SlotOwners(i) :
                    Status(i).indices[o] = Status(i).indices[q] => o = q
              /\ SlotsOf(i) = 0..(Status(i).current_index - 1)
              /\ Status(i).current_index <= Status(i).current_item_capacity

\* both owners have been given a slot of field a, one in each of two frames
TwoSlotsAssigned ==
    /\ dynamic_uniforms
    /\ frame = 2
    /\ pc = "written"
    /\ Len(items) = 2
    /\ SlotOwners(1) = {1, 2}
    /\ Status(1).indices[2] = Some(0)
    /\ Status(1).indices[1] = Some(1)
    /\ Status(1).current_index = 2
    /\ Status(1).current_item_capacity = 3

(***************************************************************************)
(* C21.  The write pass visits the items the counting pass of the same     *)
(* frame counted.  Every staging write of a field lies inside that field's *)
(* staging range and inside the staging buffer (staging_buffer_offset +    *)
(* source offset + size <= staging_buffer_offset + changed_size <= staging *)
(* size), so the slice of the staging buffer is never out of range; the    *)
(* writes of one frame never overlap; and after the write pass             *)
(* current_offset equals changed_size for every field.                     *)
(***************************************************************************)
QueuedWrites(i) == Status(i).queued_buffer_writes

\* the staging range [start, end) of the w-th queued write of field i
WriteStart(i, w) == Status(i).staging_buffer_offset + QueuedWrites(i)[w].source_offset

WriteEnd(i, w) == WriteStart(i, w) + QueuedWrites(i)[w].size

QueuedWriteIds ==
    UNION { { <<i, w>> : w \in 1..Len(QueuedWrites(i)) } : i \in TrackedFields }

StagingWritesStayInRange ==
    /\ panic_message # SliceOutOfRange
    /\ \A q \in QueuedWriteIds :
          /\ WriteEnd(q[1], q[2]) <= RangeEnd(q[1])
          /\ RangeEnd(q[1]) <= staging_buffer_size
          /\ Status(q[1]).staging_buffer_offset <= WriteStart(q[1], q[2])
    /\ \A q, r \in QueuedWriteIds :
          q # r => \/ WriteEnd(q[1], q[2]) <= WriteStart(r[1], r[2])
                   \/ WriteEnd(r[1], r[2]) <= WriteStart(q[1], q[2])
    /\ WritePassStarted
          => \A i \in TrackedFields : Status(i).current_offset = Status(i).changed_size
    /\ \A c \in 1..Len(CopyCommands(command_queue)) :
          LET copy == CopyCommands(command_queue)[c]
          IN  /\ IsSome(resources[copy.source_buffer])
              /\ Unwrap(resources[copy.source_buffer]).buffer_usage = {"COPY_SRC"}
              /\ copy.source_offset + copy.size
                    <= Unwrap(resources[copy.source_buffer]).size

\* the write pass of a frame with two items has queued two writes of field a
\* (64 bytes at 0, 300 bytes at 64) and one of field b (128 bytes at 364)
ThreeWritesQueued ==
    /\ pc = "written"
    /\ staging_buffer_size = 492
    /\ Len(QueuedWrites(1)) = 2
    /\ Len(QueuedWrites(2)) = 1
    /\ WriteStart(1, 1) = 0 /\ WriteEnd(1, 1) = 64
    /\ WriteStart(1, 2) = 64 /\ WriteEnd(1, 2) = 364
    /\ WriteStart(2, 1) = 364 /\ WriteEnd(2, 1) = 492
    /\ Status(1).current_offset = 364
    /\ Status(2).current_offset = 128

(***************************************************************************)
(* C22.  Every copy command emitted has its destination byte range inside  *)
(* the destination buffer's allocated size.  Dynamic mode: the destination *)
(* is the field's current buffer, which has current_item_capacity x        *)
(* aligned_size bytes; the copy of an item whose byte length equals the    *)
(* field's item_size ends at index x aligned_size + size, inside that      *)
(* buffer, and the ranges of such items of distinct owners do not overlap. *)
(* Non-dynamic mode: the range is [0, size) of a buffer of exactly size    *)
(* bytes.                                                                  *)
(***************************************************************************)
Copies == CopyCommands(command_queue)

CopyEnd(c) == Copies[c].destination_offset + Copies[c].size

\* the fields whose current buffer is the destination of the c-th copy
FieldsOfCopy(c) ==
    { i \in TrackedFields : Status(i).buffer = Some(Copies[c].destination_buffer) }

\* the owners whose slot of field i starts at the c-th copy's destination
SlotOwnersOfCopy(i, c) ==
    { o \in Owners :
        /\ IsSome(Status(i).indices[o])
        /\ Unwrap(Status(i).indices[o]) < Status(i).current_item_capacity
        /\ Copies[c].destination_offset = Unwrap(Status(i).indices[o]) * Status(i).aligned_size }

AllocatedSize(buffer) == Unwrap(resources[buffer]).size

IsStagingBuffer(res, r) ==
    /\ r \in 1..Len(res)
    /\ IsSome(res[r])
    /\ Unwrap(res[r]).kind = "Buffer"
    /\ Unwrap(res[r]).buffer_usage = {"COPY_SRC"}

\* the field buffers that no field uses any more
ReplacedBuffers ==
    { r \in DedicatedBuffers : \A i \in TrackedFields : Status(i).buffer # Some(r) }

OnlyStagingBuffersAreFreed ==
    [][/\ Len(resources') >= Len(resources)
       /\ \A r \in 1..Len(resources) :
             (IsSome(resources[r]) /\ ~IsSome(resources'[r]))
                => /\ IsStagingBuffer(resources, r)
                   /\ pc = "returned" /\ pc' = "idle"
                   /\ \E c \in 1..Len(command_queue) : command_queue[c] = FreeBuffer(r)
       /\ \A c \in 1..Len(FreeCommands(command_queue')) :
             /\ IsStagingBuffer(resources', FreeCommands(command_queue')[c].source_buffer)
             /\ pc' \in {"done", "flushed"}
                  => staging_buffer' = Some(FreeCommands(command_queue')[c].source_buffer)
       /\ ReplacedBuffers \subseteq ReplacedBuffers'
      ]_vars

\* the 256-byte buffer of field a, replaced by a 768-byte one in the second
\* frame, is still allocated when the third frame has been run and its
\* commands executed; the three frees executed named other buffers
ReplacedBufferOutlivesLaterFrame ==
    /\ dynamic_uniforms
    /\ frame = 3
    /\ pc = "idle"
    /\ Len(FreeCommands(executed)) = 3
    /\ IsSome(Status(1).buffer)
    /\ resources[Unwrap(Status(1).buffer)] = Some(BufferInfo(768, {"COPY_DST", "UNIFORM"}))
    /\ \E old \in ReplacedBuffers :
          /\ resources[old] = Some(BufferInfo(256, {"COPY_DST", "UNIFORM"}))
          /\ \A c \in 1..Len(executed) : executed[c] # FreeBuffer(old)

====
